---- MODULE Spec2Model ----
(***************************************************************************)
(* APIClient (web/static/js/api-client.js): the authenticated HTTP request *)
(* executor with its retry policy, the token lifecycle (login / logout /   *)
(* refreshAuthToken), the socket with its reconnection and heartbeat, and  *)
(* the event system (on / off / broadcastEvent).                           *)
(*                                                                         *)
(* One step of the model is one run-to-completion turn of the JavaScript   *)
(* event loop: the code between two suspension points (await fetch, await  *)
(* response.json(), await delay, a socket event).  Besides the fields of   *)
(* the client the state keeps what the latest turn did: the events it      *)
(* published, the callbacks it invoked, the timers it set.                 *)
(***************************************************************************)
EXTENDS Integers, Sequences, FiniteSets, TLC

(***************************************************************************)
(* Bounds of the model.                                                    *)
(***************************************************************************)
MaxStarts == 2      \* calls of request()/login() started in one behaviour
MaxSockets == 2     \* sockets created by io() in one behaviour
MaxLogouts == 1     \* logout() calls made by the consumer in one behaviour
MaxConnects == 1    \* connectSocket() calls made by consumers in one behaviour
MaxDisconnects == 1 \* disconnectSocket() calls made by consumers in one behaviour
MaxDrops == 1       \* connections lost to the network or the server in one behaviour
MaxSubs == 2        \* on() calls made by consumers in one behaviour
MaxUnsubs == 1      \* off() calls made by consumers in one behaviour
MaxChannelSockets == 3  \* sockets created by io() in one behaviour of the socket
MaxReconnectSockets == 6  \* sockets created by io() in one behaviour of the reconnection

(***************************************************************************)
(* Program constants (constructor, lines 7-19).                            *)
(***************************************************************************)
maxRetries == 3
retryDelay == 1000
maxReconnectAttempts == 5
reconnectDelay == 2000

(***************************************************************************)
(* JavaScript values.                                                      *)
(***************************************************************************)
Null == "<null>"
Undefined == "<undefined>"
NoHeader == "<no header>"

Tokens == {"t1", "t2"}

\* !!v for the values a token can take
Truthy(v) == v \notin {Null, Undefined, ""}

\* String(v), the coercion localStorage.setItem applies to its value
ToStr(v) == IF v = Undefined THEN "undefined" ELSE IF v = Null THEN "null" ELSE v

\* `Bearer ${token}`
Bearer(tok) == "Bearer " \o ToStr(tok)

RECURSIVE Pow2(_)
Pow2(n) == IF n = 0 THEN 1 ELSE 2 * Pow2(n - 1)

\* obj.key of a parsed JSON object (a function from its keys)
Get(obj, key) == IF key \in DOMAIN obj THEN obj[key] ELSE Undefined

\* a || b
OrElse(a, b) == IF Truthy(a) THEN a ELSE b

(***************************************************************************)
(* The server: response bodies and what response.json() makes of them.     *)
(***************************************************************************)
StatsBody == "{\"active_bots\": 42}"
LoginBody(t) == "{\"token\": \"" \o t \o "\", \"user\": \"alice\"}"
NoTokenBody == "{\"user\": \"alice\"}"
ErrorBody(m) == "{\"error\": \"" \o m \o "\"}"
EmptyBody == "{}"
HtmlBody == "<html>"

ServerMessages == {"Unauthorized", "Too Many Requests", "Internal Server Error"}

EmptyObject == <<>>

\* response.json(): [ok |-> parsed without a SyntaxError, val |-> the object]
ParseJSON(body) ==
    IF body = StatsBody THEN [ok |-> TRUE, val |-> [active_bots |-> 42]]
    ELSE IF \E t \in Tokens : body = LoginBody(t)
         THEN [ok |-> TRUE,
               val |-> [token |-> CHOOSE t \in Tokens : body = LoginBody(t),
                        user |-> "alice"]]
    ELSE IF body = NoTokenBody THEN [ok |-> TRUE, val |-> [user |-> "alice"]]
    ELSE IF \E m \in ServerMessages : body = ErrorBody(m)
         THEN [ok |-> TRUE,
               val |-> [error |-> CHOOSE m \in ServerMessages : body = ErrorBody(m)]]
    ELSE IF body = EmptyBody THEN [ok |-> TRUE, val |-> EmptyObject]
    ELSE [ok |-> FALSE, val |-> EmptyObject]

\* response.ok
ResponseOk(status) == status >= 200 /\ status <= 299

NoResp == [status |-> 0, body |-> ""]

\* what the server may answer to one attempt of a call of the given kind
Responses(kind) ==
    (IF kind = "login"
     THEN {[status |-> 200, body |-> LoginBody(t)] : t \in Tokens}
          \cup {[status |-> 200, body |-> NoTokenBody]}
     ELSE {[status |-> 200, body |-> StatsBody]})
    \cup {[status |-> 200, body |-> HtmlBody],
          [status |-> 401, body |-> ErrorBody("Unauthorized")],
          [status |-> 401, body |-> HtmlBody],
          [status |-> 429, body |-> ErrorBody("Too Many Requests")],
          [status |-> 429, body |-> HtmlBody],
          [status |-> 500, body |-> ErrorBody("Internal Server Error")],
          [status |-> 500, body |-> EmptyBody],
          [status |-> 503, body |-> HtmlBody]}

(***************************************************************************)
(* State.                                                                  *)
(***************************************************************************)
Slots == {"c1"}
Kinds == {"get", "login", "raw"}
SockIds == 1 .. MaxSockets

Events == {"authChange", "socketChange", "botDetection", "dashboardUpdate",
           "systemAlert", "logEntry", "heartbeatAck"}
Rooms == {"dashboard", "logs"}

\* the callbacks consumers register: h1 and h2 return, bad throws; logsEntry
\* and logsStatus are the two callbacks of LogsViewer.connectToWebSocket
Handlers == {"h1", "h2", "bad", "logsEntry", "logsStatus"}
Throws(h) == h = "bad"

VARIABLES
    token,              \* this.token
    refreshToken,       \* this.refreshToken
    localStorage,       \* the browser's key-value store
    calls,              \* the calls of request() in flight, one record a slot
    started,            \* calls started so far
    logouts,            \* consumer calls of logout() so far
    socket,             \* this.socket: 0 is null, else a socket id
    socks,              \* the state of every socket io() has created
    socketConnected,    \* this.socketConnected
    reconnectAttempts,  \* this.reconnectAttempts
    reconnectTimers,    \* pending setTimeout(() => this.connectSocket(), ms): the
                        \* delays, in the order the timers were set
    heartbeatTimers,    \* live setInterval heartbeats (lines 265-270)
    rooms,              \* rooms a subscribe was emitted for, a socket, since
                        \* that socket last lost its connection
    heartbeatOn,        \* socket the latest turn emitted a heartbeat on, else 0
    scheduled,          \* reconnect timers the latest turn set
    eventListeners,     \* this.eventListeners: a Map from the events that have
                        \* a Set to the callbacks of the Set, in insertion order
    published,          \* broadcastEvent calls of the latest turn
    delivered,          \* callbacks invoked in the latest turn, in order
    uncaught,           \* the latest turn ended with an exception nobody caught
    received,           \* the server message the latest turn received, if any
    offCalled,          \* the off(event, callback) the latest turn made, if any
    logsViewer,         \* a LogsViewer has been constructed
    budget              \* consumer and network steps left in this behaviour

authVars == <<token, refreshToken, localStorage>>
callVars == <<calls, started>>
sockVars == <<socket, socks, socketConnected, reconnectAttempts, reconnectTimers,
              heartbeatTimers, rooms, heartbeatOn, scheduled>>
busVars == <<eventListeners, published, delivered, uncaught, received, offCalled>>
envVars == <<logouts, logsViewer, budget>>
vars == <<token, refreshToken, localStorage, calls, started, logouts, socket,
          socks, socketConnected, reconnectAttempts, reconnectTimers,
          heartbeatTimers, rooms, heartbeatOn, scheduled, eventListeners,
          published, delivered, uncaught, received, offCalled, logsViewer,
          budget>>

\* the payloads the server sends with a message
Payloads == {"d1", "d2"}

NoMessage == [message |-> "none", data |-> "", socket |-> 0]

NoCall == [event |-> "none", callback |-> "none"]

\* new Map(), line 13
EmptyMap == [e \in {} |-> <<>>]

NoErr == [name |-> "none", message |-> "", attempt |-> 0]

IdleCall ==
    [pc |-> "idle",          \* idle, fetch, json, delay, resolved, rejected
     kind |-> "get",         \* get: a facade call; login; raw: request() with options.headers
     retryCount |-> 0,       \* the retryCount argument of the running request()
     attempts |-> 0,         \* fetch() calls made
     hdr |-> NoHeader,       \* Authorization header of the latest attempt
     issuedWith |-> Null,    \* this.token when the latest attempt was issued
     resp |-> NoResp,        \* latest response received
     delayMs |-> 0,          \* the delay being waited
     why |-> "none",         \* what scheduled the delay: backoff (line 54) or catch (line 68)
     only |-> "none",        \* outcome shared by all earlier attempts, else mixed
     n401 |-> 0,             \* 401 responses received
     refreshes |-> 0,        \* refreshAuthToken() calls made
     remember |-> FALSE,     \* login's rememberMe argument
     pub |-> <<>>,           \* events published by this call
     result |-> EmptyObject, \* value the promise resolved with
     err |-> NoErr]          \* error the promise rejected with

Settled(c) == calls[c].pc \in {"resolved", "rejected"}

(***************************************************************************)
(* The synchronous methods, as functions of the client's shared state g:   *)
(* the fields of the client and of its sockets, and what the turn did so   *)
(* far: out lists the broadcastEvent calls, log the callbacks invoked,     *)
(* beat the socket a heartbeat was emitted on, sched the reconnect timers  *)
(* set, thrown whether an exception is propagating, msg the server message *)
(* the turn began with, off the off() call the turn made.                  *)
(***************************************************************************)
Cur ==
    [token |-> token, refreshToken |-> refreshToken,
     localStorage |-> localStorage, socket |-> socket,
     socks |-> socks, socketConnected |-> socketConnected,
     reconnectAttempts |-> reconnectAttempts,
     reconnectTimers |-> reconnectTimers,
     heartbeatTimers |-> heartbeatTimers, rooms |-> rooms,
     eventListeners |-> eventListeners,
     out |-> <<>>, log |-> <<>>, beat |-> 0, sched |-> 0, thrown |-> FALSE,
     msg |-> NoMessage, off |-> NoCall]

\* the turn ends: g becomes the state (h is g, evaluated once)
Install(g) ==
    \E h \in {g} :
        /\ token' = h.token
        /\ refreshToken' = h.refreshToken
        /\ localStorage' = h.localStorage
        /\ socket' = h.socket
        /\ socks' = h.socks
        /\ socketConnected' = h.socketConnected
        /\ reconnectAttempts' = h.reconnectAttempts
        /\ reconnectTimers' = h.reconnectTimers
        /\ heartbeatTimers' = h.heartbeatTimers
        /\ rooms' = h.rooms
        /\ heartbeatOn' = h.beat
        /\ scheduled' = h.sched
        /\ eventListeners' = h.eventListeners
        /\ published' = h.out
        /\ delivered' = h.log
        /\ uncaught' = h.thrown
        /\ received' = h.msg
        /\ offCalled' = h.off

AuthChange(authenticated, user) ==
    [name |-> "authChange", authenticated |-> authenticated, user |-> user]
SocketChange(connected) == [name |-> "socketChange", connected |-> connected]

\* listeners.forEach(callback => callback(data)), line 292: the callbacks
\* invoked, in the order of the Set, up to the first one that throws
Deliveries(listeners, ev) ==
    LET n == Len(listeners)
        bad == {i \in 1 .. n : Throws(listeners[i])}
        last == IF bad = {} THEN n ELSE CHOOSE i \in bad : \A j \in bad : i <= j
    IN  [i \in 1 .. last |-> [handler |-> listeners[i], event |-> ev]]

\* the turn after a broadcastEvent whose forEach invoked the callbacks of log
Broadcast(g, ev, log) ==
    [g EXCEPT !.out = Append(@, ev),
              !.log = @ \o log,
              !.thrown = log # <<>> /\ Throws(log[Len(log)].handler)]

\* this.eventListeners.has(event)
Has(listeners, event) == event \in DOMAIN listeners

\* the callbacks of this.eventListeners.get(event), none if that is undefined
ListenersOf(listeners, event) ==
    IF Has(listeners, event) THEN listeners[event] ELSE <<>>

\* broadcastEvent(event, data), lines 289-294
BroadcastEvent(g, ev) ==
    Broadcast(g, ev, Deliveries(ListenersOf(g.eventListeners, ev.name), ev))

\* Set.add(callback): a callback that is a member already is not added again
SetAdd(set, callback) ==
    IF \E i \in DOMAIN set : set[i] = callback THEN set ELSE Append(set, callback)

\* Set.delete(callback)
SetDelete(set, callback) == SelectSeq(set, LAMBDA h : h # callback)

\* on(event, callback), lines 276-281
On(g, event, callback) ==
    [g EXCEPT !.eventListeners =
        [e \in DOMAIN @ \cup {event} |->
            IF e = event THEN SetAdd(ListenersOf(@, event), callback) ELSE @[e]]]

\* an off() that takes the Set of the event without asking whether there is
\* one: a TypeError for an event that has none
OffUnguarded(g, event, callback) ==
    IF Has(g.eventListeners, event)
    THEN [g EXCEPT !.eventListeners[event] = SetDelete(@, callback),
                   !.off = [event |-> event, callback |-> callback]]
    ELSE [g EXCEPT !.thrown = TRUE,
                   !.off = [event |-> event, callback |-> callback]]
\* off(event, callback), lines 283-287
Off(g, event, callback) ==
    IF Has(g.eventListeners, event)
    THEN [g EXCEPT !.eventListeners[event] = SetDelete(@, callback),
                   !.off = [event |-> event, callback |-> callback]]
    ELSE [g EXCEPT !.off = [event |-> event, callback |-> callback]]

\* socket.emit('subscribe', { room }) on socket s
EmitSubscribe(g, s, room) == [g EXCEPT !.rooms[s] = @ \cup {room}]

\* a reconnect delay that grows with the attempt
ReconnectDelayGrowing(attempt) == reconnectDelay * attempt
\* the delay of line 241, for the attempt just counted
ReconnectDelay(attempt) == reconnectDelay

\* a reconnect guard off by one
MayReconnectInclusive(attempts) == attempts <= maxReconnectAttempts
\* line 239
MayReconnect(attempts) == attempts < maxReconnectAttempts

\* lines 238-242, reached unless a callback of line 236 threw
AttemptReconnection(g) ==
    IF g.thrown THEN g
    ELSE IF MayReconnect(g.reconnectAttempts)
    THEN [g EXCEPT !.reconnectAttempts = @ + 1,
                   !.reconnectTimers =
                       Append(@, ReconnectDelay(g.reconnectAttempts + 1)),
                   !.sched = @ + 1]
    ELSE g

\* the 'disconnect' handler, lines 233-243
OnDisconnect(g) ==
    AttemptReconnection(
        BroadcastEvent([g EXCEPT !.socketConnected = FALSE], SocketChange(FALSE)))

\* line 230, reached unless a callback of line 227 threw; it emits on
\* this.socket, and throws a TypeError if that is null
SubscribeDashboard(g) ==
    IF g.thrown THEN g
    ELSE IF g.socket = 0 THEN [g EXCEPT !.thrown = TRUE]
    ELSE EmitSubscribe(g, g.socket, "dashboard")

\* a 'connect' handler that leaves the reconnect counter as it is
OnConnectKeepsAttempts(g) ==
    SubscribeDashboard(
        BroadcastEvent([g EXCEPT !.socketConnected = TRUE], SocketChange(TRUE)))
\* the 'connect' handler, lines 223-231
OnConnect(g) ==
    SubscribeDashboard(
        BroadcastEvent([g EXCEPT !.socketConnected = TRUE, !.reconnectAttempts = 0],
                       SocketChange(TRUE)))

\* a heartbeat that is emitted whatever the state of the socket
HeartbeatUnguarded(g) == [g EXCEPT !.beat = g.socket]
\* the heartbeat interval's callback, lines 266-269
Heartbeat(g) ==
    IF g.socket # 0 /\ g.socks[g.socket] = "connected"
    THEN [g EXCEPT !.beat = g.socket]
    ELSE g

\* socket.disconnect() of the socket.io client: a connected socket emits
\* 'disconnect' before the call returns, a connecting one is cancelled
SocketDisconnect(g, s) ==
    IF g.socks[s] = "connected"
    THEN OnDisconnect([g EXCEPT !.socks[s] = "closed", !.rooms[s] = {}])
    ELSE [g EXCEPT !.socks[s] = "closed", !.rooms[s] = {}]

\* lines 215-216, reached unless socket.disconnect() threw
ForgetSocket(g) ==
    IF g.thrown THEN g ELSE [g EXCEPT !.socket = 0, !.socketConnected = FALSE]

\* disconnectSocket(), lines 212-218
DisconnectSocket(g) ==
    IF g.socket # 0 THEN ForgetSocket(SocketDisconnect(g, g.socket)) ELSE g

FreeSockets(g) == {s \in DOMAIN g.socks : g.socks[s] = "unused"}

\* connectSocket(), lines 199-210, with setupSocketHandlers(), which starts a
\* heartbeat interval; io() hands out the next socket id
ConnectSocket(g) ==
    IF g.socket # 0 /\ g.socks[g.socket] = "connected"
    THEN g
    ELSE LET s == CHOOSE x \in FreeSockets(g) : \A y \in FreeSockets(g) : x <= y
         IN  [g EXCEPT !.socket = s, !.socks[s] = "connecting",
                       !.heartbeatTimers = @ + 1]

\* connectSocket() can hand out a socket id, or returns at its first line
CanConnect(g) ==
    (g.socket # 0 /\ g.socks[g.socket] = "connected") \/ FreeSockets(g) # {}

\* line 142, reached unless disconnectSocket() threw
PublishLoggedOut(g) ==
    IF g.thrown THEN g ELSE BroadcastEvent(g, AuthChange(FALSE, Undefined))

\* logout(), lines 137-143
Logout(g) ==
    PublishLoggedOut(
        DisconnectSocket([g EXCEPT !.token = Null,
                                   !.localStorage["token"] = Null,
                                   !.localStorage["remember_me"] = Null]))

\* isAuthenticated(), lines 145-147
isAuthenticated == Truthy(token)

\* the catch block of refreshAuthToken(), lines 154-158, entered if the
\* logout() of line 152 threw
LogoutAgain(g) == IF g.thrown THEN Logout([g EXCEPT !.thrown = FALSE]) ELSE g

\* refreshAuthToken(), lines 149-159: logs out and reports no new token
RefreshAuthToken(g) == [g |-> LogoutAgain(Logout(g)), refreshed |-> FALSE]

\* a login that keeps the token in memory only
LoginInstallMemoryOnly(g, response, rememberMe) ==
    BroadcastEvent([g EXCEPT !.token = Get(response, "token")],
                   AuthChange(TRUE, Get(response, "user")))

\* the continuation of login() after its request resolved, lines 118-126
LoginInstall(g, response, rememberMe) ==
    LET tok == Get(response, "token")
        g1 == [g EXCEPT !.token = tok, !.localStorage["token"] = ToStr(tok)]
        g2 == IF rememberMe THEN [g1 EXCEPT !.localStorage["remember_me"] = "true"]
              ELSE g1
    IN  BroadcastEvent(g2, AuthChange(TRUE, Get(response, "user")))

(***************************************************************************)
(* request(endpoint, options, retryCount), lines 24-73.                    *)
(***************************************************************************)
\* the Authorization header of an attempt, lines 26-37.  With options.headers
\* given, config.headers is that very object (the spread of options replaces
\* the merged headers), so a header written on an earlier attempt is still there.
AuthHeader(kind, tok, prev) ==
    IF Truthy(tok) THEN Bearer(tok)
    ELSE IF kind = "raw" THEN prev
    ELSE NoHeader

\* line 43
MayRefresh(retryCount) == retryCount < maxRetries
\* line 53
MayBackoff(retryCount) == retryCount < maxRetries
\* a retry budget the calls in flight share
MayRetryShared(retryCount) ==
    \A c \in DOMAIN calls : calls[c].retryCount < maxRetries
\* a retry guard off by one: one attempt too many
MayRetryInclusive(retryCount) == retryCount <= maxRetries
\* line 67
MayRetry(retryCount) == retryCount < maxRetries

\* a backoff that grows linearly instead of doubling
BackoffLinear(retryCount) == retryDelay * (retryCount + 1)
\* line 54
BackoffDelay(retryCount) == retryDelay * Pow2(retryCount)
\* the rate-limit backoff applied to every failure
CatchDelayExponential(retryCount) == retryDelay * Pow2(retryCount)
\* line 68
CatchDelay(retryCount) == retryDelay

OutcomeOf(resp) ==
    IF resp = NoResp THEN "net"
    ELSE IF resp.status = 429 THEN "429"
    ELSE IF resp.status = 401 THEN "401"
    ELSE IF ResponseOk(resp.status) THEN "2xx"
    ELSE "http"

Merge(only, o) == IF only \in {"none", o} THEN o ELSE "mixed"

\* lines 25-40: build the config and call fetch
IssueAttempt(call, tok, rc) ==
    [call EXCEPT !.pc = "fetch", !.retryCount = rc, !.attempts = @ + 1,
                 !.hdr = AuthHeader(call.kind, tok, call.hdr),
                 !.issuedWith = tok, !.resp = NoResp, !.delayMs = 0,
                 !.why = "none"]

\* lines 66-72
Catch(call, e) ==
    IF MayRetry(call.retryCount)
    THEN [call EXCEPT !.pc = "delay", !.delayMs = CatchDelay(call.retryCount),
                      !.why = "catch", !.only = Merge(@, OutcomeOf(call.resp))]
    ELSE [call EXCEPT !.pc = "rejected", !.err = e]

\* lines 52-57
Backoff(call) ==
    [call EXCEPT !.pc = "delay", !.delayMs = BackoffDelay(call.retryCount),
                 !.why = "backoff", !.only = Merge(@, OutcomeOf(call.resp))]

FetchError(call) ==
    [name |-> "TypeError", message |-> "Failed to fetch", attempt |-> call.attempts]
JsonError(call) ==
    [name |-> "SyntaxError", message |-> "Unexpected token", attempt |-> call.attempts]
\* what a throwing callback throws
CallbackError(call) ==
    [name |-> "Error", message |-> "callback failed", attempt |-> call.attempts]
\* line 62
RequestError(call, data) ==
    [name |-> "Error", message |-> OrElse(Get(data, "error"), "Request failed"),
     attempt |-> call.attempts]

\* a request that resolves without handing the parsed body on
ResolveWithoutData(call, data) == [call EXCEPT !.pc = "resolved"]
\* line 65
Resolve(call, data) == [call EXCEPT !.pc = "resolved", !.result = data]

(***************************************************************************)
(* Actions.                                                                *)
(***************************************************************************)
\* a consumer calls a facade method, login() or request()
StartCall(c) ==
    /\ calls[c].pc \in {"idle", "resolved", "rejected"}
    /\ started < MaxStarts
    /\ \E kind \in Kinds, rememberMe \in BOOLEAN :
         /\ rememberMe => kind = "login"
         /\ calls' = [calls EXCEPT ![c] =
                IssueAttempt([IdleCall EXCEPT !.kind = kind, !.remember = rememberMe],
                             token, 0)]
    /\ started' = started + 1
    /\ Install(Cur)
    /\ UNCHANGED envVars

\* DashboardController.loadInitialData(), dashboard.js lines 71-90: the
\* loaders of Promise.all each call a facade method in the same turn, so
\* their requests are issued together and are in flight at the same time
LoadInitialData ==
    /\ \A c \in DOMAIN calls : calls[c].pc = "idle"
    /\ isAuthenticated
    /\ calls' = [c \in DOMAIN calls |->
           IssueAttempt([IdleCall EXCEPT !.kind = "get"], token, 0)]
    /\ started' = started + Cardinality(DOMAIN calls)
    /\ Install(Cur)
    /\ UNCHANGED envVars

\* lines 42-59 for the response in call.resp, g being the client after the
\* token refresh of lines 43-50, if one was made
AfterResponse(c, call, g, refresh) ==
    /\ Install([g EXCEPT !.thrown = FALSE])
    /\ calls' = [calls EXCEPT ![c] =
           IF g.thrown
           THEN Catch([call EXCEPT !.refreshes = @ + 1, !.pub = @ \o g.out],
                      CallbackError(call))
           ELSE IF call.resp.status = 429 /\ MayBackoff(call.retryCount)
           THEN Backoff(call)
           ELSE IF refresh
           THEN [call EXCEPT !.pc = "json", !.refreshes = @ + 1, !.pub = @ \o g.out]
           ELSE [call EXCEPT !.pc = "json"]]

\* fetch resolves with a response: lines 40-59 up to `await response.json()`
Respond(c) ==
    /\ calls[c].pc = "fetch"
    /\ \E r \in Responses(calls[c].kind) :
         IF r.status = 401 /\ MayRefresh(calls[c].retryCount)
         THEN AfterResponse(c, [calls[c] EXCEPT !.resp = r, !.n401 = @ + 1],
                            RefreshAuthToken(Cur).g, TRUE)
         ELSE AfterResponse(c, [calls[c] EXCEPT !.resp = r,
                                    !.n401 = IF r.status = 401 THEN @ + 1 ELSE @],
                            Cur, FALSE)
    /\ UNCHANGED <<started, envVars>>

\* fetch rejects: no response
NetworkFailure(c) ==
    /\ calls[c].pc = "fetch"
    /\ calls' = [calls EXCEPT ![c] =
           Catch([calls[c] EXCEPT !.resp = NoResp], FetchError(calls[c]))]
    /\ Install(Cur)
    /\ UNCHANGED <<started, envVars>>

\* response.json() settles: lines 59-65, and login's continuation
BodyRead(c) ==
    /\ calls[c].pc = "json"
    /\ LET call == calls[c]
           p == ParseJSON(call.resp.body)
       IN  IF ~p.ok
           THEN /\ calls' = [calls EXCEPT ![c] = Catch(call, JsonError(call))]
                /\ Install(Cur)
           ELSE IF ~ResponseOk(call.resp.status)
           THEN /\ calls' = [calls EXCEPT ![c] = Catch(call, RequestError(call, p.val))]
                /\ Install(Cur)
           ELSE IF call.kind = "login"
           THEN LET g == LoginInstall(Cur, p.val, call.remember)
                IN  /\ Install([g EXCEPT !.thrown = FALSE])
                    /\ calls' = [calls EXCEPT ![c] =
                           IF g.thrown
                           THEN [call EXCEPT !.pc = "rejected",
                                             !.err = CallbackError(call),
                                             !.pub = @ \o g.out]
                           ELSE [Resolve(call, p.val) EXCEPT !.pub = @ \o g.out]]
           ELSE /\ calls' = [calls EXCEPT ![c] = Resolve(call, p.val)]
                /\ Install(Cur)
    /\ UNCHANGED <<started, envVars>>

\* the delay's timer fires: the recursive request(endpoint, options, retryCount + 1)
RetryTimer(c) ==
    /\ calls[c].pc = "delay"
    /\ calls' = [calls EXCEPT ![c] =
           IssueAttempt(calls[c], token, calls[c].retryCount + 1)]
    /\ Install(Cur)
    /\ UNCHANGED <<started, envVars>>

\* the consumer calls logout()
UserLogout ==
    /\ logouts < MaxLogouts
    /\ logouts' = logouts + 1
    /\ Install(Logout(Cur))
    /\ UNCHANGED <<callVars, logsViewer, budget>>

\* socket s signals 'connect': lines 223-231
SocketOpen(s) ==
    /\ socks[s] = "connecting"
    /\ Install(OnConnect([Cur EXCEPT !.socks[s] = "connected"]))
    /\ UNCHANGED <<callVars, envVars>>

\* a reconnect timer fires: line 241
ReconnectTimer ==
    /\ reconnectTimers # <<>>
    /\ LET g == [Cur EXCEPT !.reconnectTimers = Tail(@)]
       IN  /\ CanConnect(g)
           /\ Install(ConnectSocket(g))
    /\ UNCHANGED <<callVars, envVars>>

\* a consumer calls connectSocket(): dashboard.js line 31
UserConnect ==
    /\ budget.connects > 0
    /\ budget' = [budget EXCEPT !.connects = @ - 1]
    /\ CanConnect(Cur)
    /\ Install(ConnectSocket(Cur))
    /\ UNCHANGED <<callVars, logouts, logsViewer>>

\* a consumer calls disconnectSocket(): dashboard.js line 34
UserDisconnect ==
    /\ budget.disconnects > 0
    /\ budget' = [budget EXCEPT !.disconnects = @ - 1]
    /\ Install(DisconnectSocket(Cur))
    /\ UNCHANGED <<callVars, logouts, logsViewer>>

\* the transport of socket s closes: the socket signals 'disconnect' and
\* socket.io goes on to reconnect it
SocketDrop(s) ==
    /\ socks[s] = "connected"
    /\ budget.drops > 0
    /\ budget' = [budget EXCEPT !.drops = @ - 1]
    /\ Install(OnDisconnect([Cur EXCEPT !.socks[s] = "connecting", !.rooms[s] = {}]))
    /\ UNCHANGED <<callVars, logouts, logsViewer>>

\* the server disconnects socket s: the socket signals 'disconnect' and
\* stays closed
ServerClose(s) ==
    /\ socks[s] = "connected"
    /\ budget.drops > 0
    /\ budget' = [budget EXCEPT !.drops = @ - 1]
    /\ Install(OnDisconnect([Cur EXCEPT !.socks[s] = "closed", !.rooms[s] = {}]))
    /\ UNCHANGED <<callVars, logouts, logsViewer>>

\* a heartbeat interval fires: lines 265-270
HeartbeatTick ==
    /\ heartbeatTimers > 0
    /\ Install(Heartbeat(Cur))
    /\ UNCHANGED <<callVars, envVars>>

\* the socket events the client republishes, lines 245-263
InboundEvent(message) ==
    CASE message = "bot_detection" -> "botDetection"
      [] message = "dashboard_update" -> "dashboardUpdate"
      [] message = "system_alert" -> "systemAlert"
      [] message = "log_entry" -> "logEntry"
      [] message = "heartbeat_ack" -> "heartbeatAck"

InboundMessages ==
    {"bot_detection", "dashboard_update", "system_alert", "log_entry", "heartbeat_ack"}

\* the handler socket.on(m, (data) => ...) registered for message m, lines 245-263
OnMessage(g, m, data) ==
    BroadcastEvent(g, [name |-> InboundEvent(m), data |-> data])

\* socket s receives a message from the server
Inbound(s) ==
    /\ socks[s] = "connected"
    /\ \E m \in InboundMessages, d \in Payloads :
         Install(OnMessage([Cur EXCEPT !.msg = [message |-> m, data |-> d,
                                                socket |-> s]], m, d))
    /\ UNCHANGED <<callVars, envVars>>

\* a consumer calls on(event, callback)
Subscribe ==
    /\ budget.subs > 0
    /\ budget' = [budget EXCEPT !.subs = @ - 1]
    /\ \E e \in Events, h \in {"h1", "h2", "bad"} : Install(On(Cur, e, h))
    /\ UNCHANGED <<callVars, logouts, logsViewer>>

\* a consumer calls off(event, callback), for a callback it registered or
\* for another one
Unsubscribe ==
    /\ budget.unsubs > 0
    /\ budget' = [budget EXCEPT !.unsubs = @ - 1]
    /\ \E e \in Events, h \in {"h1", "h2", "bad"} : Install(Off(Cur, e, h))
    /\ UNCHANGED <<callVars, logouts, logsViewer>>

\* LogsViewer.connectToWebSocket(), part_000 lines 715-733
LogsConnect ==
    /\ ~logsViewer
    /\ logsViewer' = TRUE
    /\ socketConnected \/ CanConnect(Cur)
    /\ LET g1 == IF ~socketConnected THEN ConnectSocket(Cur) ELSE Cur
           g2 == On(On(g1, "logEntry", "logsEntry"), "socketChange", "logsStatus")
       IN  Install(IF g2.socket # 0 THEN EmitSubscribe(g2, g2.socket, "logs") ELSE g2)
    /\ UNCHANGED <<callVars, logouts, budget>>

(***************************************************************************)
(* The state after the script has run: constructor (lines 7-19) and the    *)
(* auto-connect (lines 305-310).                                           *)
(***************************************************************************)
StoredAtStart ==
    {[token |-> Null, remember_me |-> Null, refresh_token |-> Null],
     [token |-> "t1", remember_me |-> Null, refresh_token |-> Null],
     [token |-> "t1", remember_me |-> "true", refresh_token |-> Null],
     [token |-> "t1", remember_me |-> Null, refresh_token |-> "r1"]}

Constructed(store, ids) ==
    [token |-> store["token"], refreshToken |-> store["refresh_token"],
     localStorage |-> store, socket |-> 0,
     socks |-> [s \in ids |-> "unused"], socketConnected |-> FALSE,
     reconnectAttempts |-> 0, reconnectTimers |-> <<>>,
     heartbeatTimers |-> 0, rooms |-> [s \in ids |-> {}],
     eventListeners |-> EmptyMap,
     out |-> <<>>, log |-> <<>>, beat |-> 0, sched |-> 0, thrown |-> FALSE,
     msg |-> NoMessage, off |-> NoCall]

\* the page has loaded with one of the stores, io() can hand out the socket
\* ids, the consumers and the network may take the steps of budget b, and
\* request() may be running in each of the slots
BootWith(stores, ids, b, slots) ==
    /\ \E store \in stores :
         LET g0 == Constructed(store, ids)
             g == IF Truthy(g0.token) THEN ConnectSocket(g0) ELSE g0
         IN  /\ token = g.token
             /\ refreshToken = g.refreshToken
             /\ localStorage = g.localStorage
             /\ socket = g.socket
             /\ socks = g.socks
             /\ socketConnected = g.socketConnected
             /\ reconnectAttempts = g.reconnectAttempts
             /\ reconnectTimers = g.reconnectTimers
             /\ heartbeatTimers = g.heartbeatTimers
             /\ rooms = g.rooms
             /\ heartbeatOn = g.beat
             /\ scheduled = g.sched
             /\ eventListeners = g.eventListeners
             /\ published = g.out
             /\ delivered = g.log
             /\ uncaught = g.thrown
             /\ received = g.msg
             /\ offCalled = g.off
    /\ calls = [c \in slots |-> IdleCall]
    /\ started = 0
    /\ logouts = 0
    /\ logsViewer = FALSE
    /\ budget = b

Boot(stores, ids, b) == BootWith(stores, ids, b, Slots)

Budget ==
    [connects |-> MaxConnects, disconnects |-> MaxDisconnects,
     drops |-> MaxDrops, subs |-> MaxSubs, unsubs |-> MaxUnsubs]

Init == Boot(StoredAtStart, SockIds, Budget)

\* the steps of the request executor and of its callers
NextRequest ==
    \/ \E c \in DOMAIN calls : StartCall(c)
    \/ \E c \in DOMAIN calls : Respond(c)
    \/ \E c \in DOMAIN calls : NetworkFailure(c)
    \/ \E c \in DOMAIN calls : BodyRead(c)
    \/ \E c \in DOMAIN calls : RetryTimer(c)
    \/ UserLogout

\* the steps of the socket
NextSocket ==
    \/ \E s \in DOMAIN socks : SocketOpen(s)
    \/ ReconnectTimer

Next == NextRequest \/ NextSocket

Spec == Init /\ [][Next]_vars

\* The request executor while the socket stays as the script left it (no
\* request step reads the socket).  Timers fire and a body that is being read
\* is read to its end; whether the server answers an attempt at all is left
\* to the server.
\* no step of the request executor reads the refresh token
RequestStores == {st \in StoredAtStart : st["refresh_token"] = Null}

InitRequest == Boot(RequestStores, SockIds, Budget)

FairSpec ==
    /\ InitRequest
    /\ [][NextRequest]_vars
    /\ \A c \in Slots : WF_vars(BodyRead(c)) /\ WF_vars(RetryTimer(c))

(***************************************************************************)
(* The socket with its consumers: the page has loaded with or without a    *)
(* token; consumers connect, disconnect, log out and subscribe; the        *)
(* network drops connections.                                              *)
(***************************************************************************)
ChannelSockIds == 1 .. MaxChannelSockets

ChannelStores == {st \in StoredAtStart : st["remember_me"] = Null}

InitChannel == Boot(ChannelStores, ChannelSockIds, Budget)

NextChannel ==
    \/ UserConnect
    \/ UserDisconnect
    \/ UserLogout
    \/ LogsConnect
    \/ \E s \in DOMAIN socks : SocketOpen(s)
    \/ \E s \in DOMAIN socks : SocketDrop(s)
    \/ \E s \in DOMAIN socks : ServerClose(s)
    \/ ReconnectTimer
    \/ HeartbeatTick

SpecChannel == InitChannel /\ [][NextChannel]_vars

(***************************************************************************)
(* The reconnection: connections are opened by consumers and by reconnect  *)
(* timers, and the server closes them.                                     *)
(***************************************************************************)
ReconnectSockIds == 1 .. MaxReconnectSockets

ReconnectBudget ==
    [connects |-> MaxReconnectSockets - 1, disconnects |-> 0,
     drops |-> MaxReconnectSockets, subs |-> 0, unsubs |-> 0]

\* the page has loaded with a token and has connected
ReconnectStores ==
    {st \in ChannelStores : Truthy(st["token"]) /\ st["refresh_token"] = Null}

InitReconnect == Boot(ReconnectStores, ReconnectSockIds, ReconnectBudget)

NextReconnect ==
    \/ UserConnect
    \/ \E s \in DOMAIN socks : SocketOpen(s)
    \/ \E s \in DOMAIN socks : ServerClose(s)
    \/ ReconnectTimer

SpecReconnect == InitReconnect /\ [][NextReconnect]_vars

(***************************************************************************)
(* The event system: consumers register callbacks, the client publishes    *)
(* its own events and republishes the messages the server sends.           *)
(***************************************************************************)
NextBus ==
    \/ Subscribe
    \/ UserLogout
    \/ \E s \in DOMAIN socks : SocketOpen(s)
    \/ \E s \in DOMAIN socks : SocketDrop(s)
    \/ \E s \in DOMAIN socks : Inbound(s)

InitBus == Boot(ReconnectStores, SockIds, Budget)

SpecBus == InitBus /\ [][NextBus]_vars

(***************************************************************************)
(* The registry of the event system: consumers register and remove         *)
(* callbacks, the server sends messages the client republishes.            *)
(***************************************************************************)
NextRegistry ==
    \/ Subscribe
    \/ Unsubscribe
    \/ \E s \in DOMAIN socks : SocketOpen(s)
    \/ \E s \in DOMAIN socks : Inbound(s)

SpecRegistry == InitBus /\ [][NextRegistry]_vars

(***************************************************************************)
(* Requests in flight at the same time: the page has loaded with a token   *)
(* and the dashboard loads its data, every loader with a request of its    *)
(* own.                                                                    *)
(***************************************************************************)
ConcurrentSlots == {"c1", "c2"}

InitConcurrent == BootWith(ReconnectStores, SockIds, Budget, ConcurrentSlots)

NextConcurrent ==
    \/ LoadInitialData
    \/ \E c \in DOMAIN calls : Respond(c)
    \/ \E c \in DOMAIN calls : NetworkFailure(c)
    \/ \E c \in DOMAIN calls : BodyRead(c)
    \/ \E c \in DOMAIN calls : RetryTimer(c)

SpecConcurrent == InitConcurrent /\ [][NextConcurrent]_vars

(***************************************************************************)
(* The session while requests are in flight: the page has loaded with a    *)
(* token, and consumers call facade methods and login() while other calls  *)
(* are running.                                                            *)
(***************************************************************************)
NextSession ==
    \/ \E c \in DOMAIN calls : StartCall(c)
    \/ \E c \in DOMAIN calls : Respond(c)
    \/ \E c \in DOMAIN calls : NetworkFailure(c)
    \/ \E c \in DOMAIN calls : BodyRead(c)
    \/ \E c \in DOMAIN calls : RetryTimer(c)

SpecSession == InitConcurrent /\ [][NextSession]_vars

(***************************************************************************)
(* Properties of the request executor.                                     *)
(***************************************************************************)
IsAuthFalse(ev) == ev.name = "authChange" /\ ev.authenticated = FALSE
NumAuthFalse(pub) == Cardinality({i \in DOMAIN pub : IsAuthFalse(pub[i])})

\* C1: a call of request() makes at most maxRetries + 1 transport attempts,
\* whatever the outcomes of its attempts; a retry is pending only while fewer
\* than maxRetries + 1 attempts were made, and the attempt counter of the
\* recursion never passes maxRetries.
C1_AttemptsBounded ==
    \A c \in Slots :
        /\ calls[c].attempts <= maxRetries + 1
        /\ calls[c].retryCount <= maxRetries
        /\ calls[c].pc = "delay" => calls[c].attempts <= maxRetries

\* a call that used its whole budget and was rejected
C1_Witness ==
    \E c \in Slots : calls[c].pc = "rejected" /\ calls[c].attempts = maxRetries + 1

\* C2 (as claimed): once an attempt has received a 4xx/5xx status other than
\* 401 and 429 with a readable body, the call is rejected with the server's
\* message: it never waits a delay for a further attempt.
C2_HttpErrorRejectsImmediately ==
    \A c \in Slots :
        LET call == calls[c]
            p == ParseJSON(call.resp.body)
        IN  (/\ call.pc \in {"delay", "resolved", "rejected"}
             /\ OutcomeOf(call.resp) = "http"
             /\ p.ok)
            => /\ call.pc = "rejected"
               /\ call.err.name = "Error"
               /\ call.err.message = OrElse(Get(p.val, "error"), "Request failed")

\* C3 (as claimed): a call that received a 401 and whose token refresh failed
\* settles only by rejecting with an Unauthorized error.
C3_FailedRefreshRejectsUnauthorized ==
    \A c \in Slots :
        (calls[c].refreshes > 0 /\ Settled(c))
        => /\ calls[c].pc = "rejected"
           /\ calls[c].err.message = "Unauthorized"

\* C4 (as claimed): a call that has met a 401 has made exactly one token
\* refresh and published authChange{authenticated: false} exactly once.
C4_OneRefreshPerRequest ==
    \A c \in Slots :
        calls[c].n401 > 0
        => /\ calls[c].refreshes = 1
           /\ NumAuthFalse(calls[c].pub) = 1

\* C5 (as claimed): every 401 a call receives, on whichever attempt, clears
\* the credential and publishes an auth-change event: the call has published
\* one authChange{authenticated: false} for each 401, and a call rejected on
\* a 401 leaves no token in memory or in the store.
C5_Every401ClearsCredential ==
    \A c \in Slots :
        /\ NumAuthFalse(calls[c].pub) = calls[c].n401
        /\ (calls[c].pc = "rejected" /\ calls[c].resp.status = 401)
           => (~Truthy(token) /\ localStorage["token"] = Null)

\* C6: a call whose earlier attempts, if any, were all answered 429 and whose
\* current attempt is answered 2xx with a readable body eventually resolves
\* with the parsed body of that 2xx response (429 then 200 {"active_bots": 42}
\* resolves to {active_bots: 42}); and every backoff wait after a 429 ends in
\* the next attempt being issued.
SuccessResponses ==
    {r \in UNION {Responses(k) : k \in Kinds} :
        ResponseOk(r.status) /\ ParseJSON(r.body).ok}

C6_RateLimitedThenSuccessResolves ==
    \A c \in Slots :
        /\ (calls[c].pc = "delay" /\ calls[c].why = "backoff")
              ~> (calls[c].pc = "fetch")
        /\ \A r \in SuccessResponses :
              (/\ calls[c].pc = "json"
               /\ calls[c].resp = r
               /\ calls[c].only \in {"none", "429"})
              ~> (/\ calls[c].pc = "resolved"
                  /\ calls[c].resp = r
                  /\ calls[c].result = ParseJSON(r.body).val)
        /\ (/\ calls[c].pc = "json"
             /\ calls[c].resp = [status |-> 200, body |-> StatsBody]
             /\ calls[c].only = "429")
              ~> (calls[c].pc = "resolved" /\ calls[c].result = [active_bots |-> 42])

\* two 429 answers, then 200 {"active_bots": 42}: resolved with {active_bots: 42}
C6_Witness ==
    \E c \in Slots :
        /\ calls[c].pc = "resolved"
        /\ calls[c].only = "429"
        /\ calls[c].attempts = maxRetries
        /\ calls[c].resp = [status |-> 200, body |-> StatsBody]
        /\ calls[c].result = [active_bots |-> 42]

\* C7 (as claimed): the backoff waited after a 429, before attempt n of the
\* call (the first attempt being attempt 1), is retryDelay * 2^(n-1).
C7_BackoffBeforeAttemptN ==
    \A c \in Slots :
        (calls[c].pc = "delay" /\ calls[c].why = "backoff")
        => LET n == calls[c].attempts + 1
           IN  calls[c].delayMs = retryDelay * Pow2(n - 1)

\* C7 (amended): the backoff waited after a 429, before attempt n of the call
\* (the first attempt being attempt 1, n >= 2), is retryDelay * 2^(n-2): the
\* delay doubles with every attempt already made, whatever made the earlier
\* attempts fail, and is retryDelay before the second attempt.
C7_BackoffDoubles ==
    \A c \in Slots :
        (calls[c].pc = "delay" /\ calls[c].resp.status = 429)
        => LET n == calls[c].attempts + 1
           IN  /\ calls[c].why = "backoff"
               /\ n >= 2
               /\ calls[c].delayMs = retryDelay * Pow2(n - 2)

\* a 429 on the third attempt, after attempts that failed for other reasons
C7_Witness ==
    \E c \in Slots :
        /\ calls[c].pc = "delay"
        /\ calls[c].why = "backoff"
        /\ calls[c].attempts = 3
        /\ calls[c].only = "mixed"
        /\ calls[c].delayMs = 4 * retryDelay

\* C8: after a network failure with budget left the call waits exactly
\* retryDelay, whatever the attempt number, and retries; a call whose every
\* attempt failed on the network is rejected only after maxRetries + 1
\* attempts, with the error of its last attempt.
C8_NetworkFailureFixedDelay ==
    \A c \in Slots :
        LET call == calls[c]
        IN  /\ (call.pc = "delay" /\ call.resp = NoResp)
               => (call.why = "catch" /\ call.delayMs = retryDelay)
            /\ (call.pc = "rejected" /\ call.resp = NoResp)
               => /\ call.attempts = maxRetries + 1
                  /\ call.err = [name |-> "TypeError", message |-> "Failed to fetch",
                                 attempt |-> maxRetries + 1]
            /\ (call.attempts > 0 /\ call.resp = NoResp /\ call.only \in {"none", "net"})
               => call.pc \in {"fetch", "delay", "rejected"}

\* every attempt failed on the network and the budget is spent
C8_Witness ==
    \E c \in Slots :
        /\ calls[c].pc = "rejected"
        /\ calls[c].only = "net"
        /\ calls[c].resp = NoResp
        /\ calls[c].attempts = maxRetries + 1
        /\ calls[c].err.name = "TypeError"

\* C9 (as claimed): every attempt carries Authorization: Bearer <token> if
\* and only if the client holds a token when the attempt is issued, with the
\* token held at that moment.
C9_HeaderIsCurrentToken ==
    \A c \in Slots :
        calls[c].attempts > 0
        => calls[c].hdr = (IF Truthy(calls[c].issuedWith)
                           THEN Bearer(calls[c].issuedWith) ELSE NoHeader)

\* C10: the turn in which a login's request resolves with a token installs
\* that token in memory and in localStorage, publishes exactly one event,
\* authChange{authenticated: true, user}, and leaves isAuthenticated() true;
\* and every attempt a facade call issues while a token is held carries
\* Bearer <that token>.
LoginResolves(c) ==
    /\ calls[c].kind = "login"
    /\ calls[c].pc = "json"
    /\ calls'[c].pc = "resolved"

Issues(c) == calls'[c].pc = "fetch" /\ calls[c].pc # "fetch"

C10_LoginInstallsToken ==
    [][\A c \in Slots :
         /\ (LoginResolves(c) /\ Get(calls'[c].result, "token") \in Tokens)
            => /\ token' = calls'[c].result["token"]
               /\ localStorage'["token"] = calls'[c].result["token"]
               /\ isAuthenticated'
               /\ calls'[c].pub =
                    Append(calls[c].pub, AuthChange(TRUE, calls'[c].result["user"]))
         /\ (Issues(c) /\ Truthy(token) /\ calls'[c].kind # "raw")
            => calls'[c].hdr = Bearer(token)
      ]_vars

\* a login resolved with token t2 while a different token was stored before
C10_Witness ==
    \E c \in Slots :
        /\ calls[c].kind = "login"
        /\ calls[c].pc = "resolved"
        /\ calls[c].result = [token |-> "t2", user |-> "alice"]
        /\ token = "t2"
        /\ localStorage["token"] = "t2"
        /\ isAuthenticated
        /\ calls[c].pub = <<AuthChange(TRUE, "alice")>>

(***************************************************************************)
(* Properties of the token lifecycle, the socket and the event system.     *)
(***************************************************************************)
\* C11 (as claimed): a logout() clears the whole credential: after it the
\* access token and the refresh token are null in memory and absent from
\* localStorage, isAuthenticated() is false, and authChange{authenticated:
\* false} has been published.
C11_LogoutClearsCredential ==
    [][logouts' = logouts + 1
       => /\ token' = Null
          /\ refreshToken' = Null
          /\ localStorage'["token"] = Null
          /\ localStorage'["refresh_token"] = Null
          /\ ~isAuthenticated'
          /\ \E i \in DOMAIN published' : IsAuthFalse(published'[i])
      ]_vars

\* a turn in which connectSocket() was called: by a consumer, by a reconnect
\* timer or by LogsViewer
ConnectCalled ==
    \/ budget'.connects < budget.connects
    \/ Len(reconnectTimers') < Len(reconnectTimers)
    \/ (logsViewer' /\ ~logsViewer /\ ~socketConnected)

Connecting(ss) == {s \in DOMAIN ss : ss[s] = "connecting"}

\* C12 (as claimed): a connectSocket() called while the socket is being
\* opened, by a consumer or by a fired reconnect timer, opens no second
\* connection: it leaves the sockets as they are, and never is more than one
\* connection being opened.
C12_ConnectWhileConnectingIsNoOp ==
    [][/\ (ConnectCalled /\ socket # 0 /\ socks[socket] = "connecting")
          => (socks' = socks /\ socket' = socket)
       /\ Cardinality(Connecting(socks')) <= 1
      ]_vars

\* a turn in which disconnectSocket() was called by a consumer or by logout()
DisconnectCalled ==
    budget'.disconnects < budget.disconnects \/ logouts' > logouts

\* a turn in which a consumer called connectSocket()
ExplicitConnect ==
    budget'.connects < budget.connects \/ (logsViewer' /\ ~logsViewer)

\* C13 (as claimed): an explicit disconnectSocket(), the one of logout()
\* included, neither increments reconnectAttempts nor schedules a reconnect,
\* and once the client holds no socket only an explicit connectSocket() gives
\* it one again.
C13_ExplicitDisconnectNoReconnect ==
    [][/\ DisconnectCalled
          => /\ reconnectAttempts' = reconnectAttempts
             /\ reconnectTimers' = reconnectTimers
       /\ (socket = 0 /\ socket' # 0) => ExplicitConnect
      ]_vars

Created(ss) == {s \in DOMAIN ss : ss[s] # "unused"}

Dropped == budget'.drops < budget.drops

\* C15 (as claimed): every unintentional disconnect that finds
\* reconnectAttempts below maxReconnectAttempts increments the counter by
\* exactly one and schedules exactly one connectSocket(), after the fixed
\* delay reconnectDelay, the same for every attempt.
C15_DisconnectSchedulesOneReconnect ==
    [][(Dropped /\ reconnectAttempts < maxReconnectAttempts)
       => /\ reconnectAttempts' = reconnectAttempts + 1
          /\ reconnectTimers' = Append(reconnectTimers, reconnectDelay)
          /\ scheduled' = 1
      ]_vars

\* C16 (as claimed): every time a connection signals open, the first time and
\* after every reconnect, a room subscription has been emitted on that
\* connection for each of the rooms 'dashboard' and 'logs'.
C16_OpenSubscribesAllRooms ==
    \A s \in DOMAIN socks : socks[s] = "connected" => Rooms \subseteq rooms[s]

\* C17: a heartbeat is emitted only on the client's current socket and only
\* while that socket is connected: never on a socket that is being opened,
\* has lost its connection or was closed, and never when the client holds
\* no socket.
C17_HeartbeatOnlyWhileConnected ==
    heartbeatOn # 0
    => /\ socket = heartbeatOn
       /\ socks[heartbeatOn] = "connected"

\* a heartbeat emitted on a socket that replaced an earlier one, none of the
\* earlier sockets being connected
C17_Witness ==
    /\ heartbeatOn > 1
    /\ socks[heartbeatOn] = "connected"
    /\ \A s \in DOMAIN socks : s < heartbeatOn => socks[s] # "connected"

\* C18 (as claimed): an explicit disconnectSocket() leaves no heartbeat timer
\* and no reconnect timer scheduled, and never is more than one heartbeat
\* timer alive.
C18_DisconnectCancelsTimers ==
    [][/\ DisconnectCalled => (heartbeatTimers' = 0 /\ reconnectTimers' = <<>>)
       /\ heartbeatTimers' <= 1
      ]_vars

\* the callbacks registered for the events of pub, event after event, each
\* event's callbacks in the order of their registration
RECURSIVE Fanout(_)
Fanout(pub) ==
    IF pub = <<>> THEN <<>>
    ELSE LET ev == Head(pub)
             ls == ListenersOf(eventListeners, ev.name)
         IN  [i \in 1 .. Len(ls) |-> [handler |-> ls[i], event |-> ev]]
             \o Fanout(Tail(pub))

\* C19 (as claimed): a broadcastEvent(event, data) invokes every callback
\* registered for that event exactly once, before it returns, in the order
\* of registration and with data, and invokes no callback registered for
\* another event.
C19_PublishInvokesAllInOrder == delivered = Fanout(published)

\* C20 (as claimed): a callback that throws neither keeps the callbacks
\* registered after it from being invoked nor makes the publisher fail: no
\* turn ends with the callback's exception uncaught, every callback
\* registered for the event of a throwing one is invoked for that event, and
\* the 'connect' handler still emits its room subscription.
C20_ThrowingHandlerIsolated ==
    /\ ~uncaught
    /\ \A i \in DOMAIN delivered :
         Throws(delivered[i].handler)
         => \A k \in DOMAIN ListenersOf(eventListeners, delivered[i].event.name) :
              \E j \in DOMAIN delivered :
                 delivered[j] =
                    [handler |-> ListenersOf(eventListeners, delivered[i].event.name)[k],
                     event |-> delivered[i].event]
    /\ (published = <<SocketChange(TRUE)>> /\ socket # 0)
         => "dashboard" \in rooms[socket]

\* a turn in which a consumer called on(event, callback)
OnCalled == budget'.subs < budget.subs

\* C21 (as claimed): every on(event, callback) adds a registration, also for
\* a callback that is already registered for the event, so that a publish
\* invokes a callback once for each of its registrations: the event of the
\* call holds one registration more after it, and the registrations of the
\* other events are kept.
C21_EveryRegistrationRetained ==
    [][OnCalled
       => \E e \in Events :
            /\ Len(ListenersOf(eventListeners', e))
                 = Len(ListenersOf(eventListeners, e)) + 1
            /\ \A other \in Events \ {e} :
                 ListenersOf(eventListeners', other) = ListenersOf(eventListeners, other)
      ]_vars

\* the local name a server message is republished under
LocalName(message) ==
    CASE message = "log_entry" -> "logEntry"
      [] message = "bot_detection" -> "botDetection"
      [] message = "dashboard_update" -> "dashboardUpdate"
      [] message = "system_alert" -> "systemAlert"

Republished == {"log_entry", "bot_detection", "dashboard_update", "system_alert"}

\* C22 (as claimed): a turn that received one of the server messages
\* log_entry, bot_detection, dashboard_update or system_alert on a connected
\* socket has published exactly one event, under the local name of the
\* message and with the payload as received, and has invoked every callback
\* registered for that event exactly once, whatever connects, disconnects
\* and reconnects came before.
C22_InboundRepublishedOnce ==
    received.message \in Republished
    => LET ev == [name |-> LocalName(received.message), data |-> received.data]
           ls == ListenersOf(eventListeners, ev.name)
       IN  /\ published = <<ev>>
           /\ delivered = [i \in 1 .. Len(ls) |-> [handler |-> ls[i], event |-> ev]]

\* callback is registered for event
Registered(listeners, event, callback) ==
    \E i \in DOMAIN ListenersOf(listeners, event) :
        ListenersOf(listeners, event)[i] = callback

\* C23: an off(event, callback) for a callback that is not registered for
\* the event, the event having other callbacks, none, or no Set at all,
\* raises no error and leaves the registry as it is: a publish of any event
\* invokes the same callbacks in the same order as before.
C23_OffOfUnregisteredIsNoOp ==
    [][(/\ offCalled'.event # "none"
        /\ ~Registered(eventListeners, offCalled'.event, offCalled'.callback))
       => /\ ~uncaught'
          /\ eventListeners' = eventListeners
          /\ \A e \in Events :
               Deliveries(ListenersOf(eventListeners', e), [name |-> e])
                 = Deliveries(ListenersOf(eventListeners, e), [name |-> e])
      ]_vars

\* off() was called for an event that never had a callback, while callbacks
\* are registered for other events
C23_Witness ==
    /\ offCalled.event # "none"
    /\ ~Has(eventListeners, offCalled.event)
    /\ ~uncaught
    /\ \E e \in Events : ListenersOf(eventListeners, e) # <<>>

\* socket s signals 'connect' in the turn
Opens(s) == socks[s] = "connecting" /\ socks'[s] = "connected"

\* socket s signals 'disconnect' in the turn: the network dropped it, the
\* server closed it or the client called its disconnect()
Disconnects(s) == socks[s] = "connected" /\ socks'[s] # "connected"

\* C24: the turn in which a socket signals open leaves socketConnected true
\* and reconnectAttempts 0 and publishes socketChange{connected: true}; the
\* turn in which a socket signals disconnect, whatever disconnected it,
\* leaves socketConnected false and publishes socketChange{connected: false}
\* before anything else.
C24_OpenAndDisconnectPublishState ==
    [][\A s \in DOMAIN socks :
         /\ Opens(s)
            => /\ socketConnected'
               /\ reconnectAttempts' = 0
               /\ published' = <<SocketChange(TRUE)>>
         /\ Disconnects(s)
            => /\ ~socketConnected'
               /\ published' # <<>>
               /\ Head(published') = SocketChange(FALSE)
      ]_vars

\* a socket has opened again after a disconnect that had counted a reconnect
\* attempt and set a timer
C24_Witness ==
    /\ published = <<SocketChange(TRUE)>>
    /\ socketConnected
    /\ reconnectAttempts = 0
    /\ reconnectTimers # <<>>

\* C25: in every state 0 <= reconnectAttempts <= maxReconnectAttempts,
\* whatever the order of connectSocket(), disconnectSocket(), opens and
\* closes of the connections and firings of the reconnect timers.
C25_ReconnectAttemptsBounded ==
    /\ reconnectAttempts \in Nat
    /\ reconnectAttempts >= 0
    /\ reconnectAttempts <= maxReconnectAttempts

\* the counter has reached its maximum
C25_Witness ==
    /\ reconnectAttempts = maxReconnectAttempts
    /\ Len(reconnectTimers) > 0

\* the retry budget, the attempt counter and the delay of a call as its own
\* attempts alone give them
OwnRetryState(call) ==
    call.attempts > 0
    => /\ call.attempts = call.retryCount + 1
       /\ call.retryCount <= maxRetries
       /\ call.pc = "delay"
          => /\ call.retryCount < maxRetries
             /\ call.delayMs = (IF call.why = "backoff"
                                THEN retryDelay * Pow2(call.retryCount)
                                ELSE retryDelay)
       /\ call.pc = "rejected" => call.attempts = maxRetries + 1

\* C26: requests in flight at the same time are independent: a turn of one
\* running call changes nothing of any other call, and every call has the
\* attempt counter, the delays and the full retry budget its own attempts
\* give it, whatever the other calls met and in whatever order their
\* attempts interleave.
C26_ConcurrentCallsIndependent ==
    [][\A c \in DOMAIN calls :
         /\ (calls[c].pc # "idle" /\ calls'[c] # calls[c])
            => \A d \in DOMAIN calls \ {c} : calls'[d] = calls[d]
         /\ OwnRetryState(calls'[c])
      ]_vars

\* one call has spent its budget and is rejected while the other, started
\* in the same turn, waits its first backoff
C26_Witness ==
    \E c, d \in DOMAIN calls :
        /\ calls[c].pc = "rejected"
        /\ calls[c].attempts = maxRetries + 1
        /\ calls[d].pc = "delay"
        /\ calls[d].why = "backoff"
        /\ calls[d].attempts = 1
        /\ calls[d].delayMs = retryDelay

\* call c receives a 401 in the turn, for an attempt issued before a login()
\* that has resolved since installed the token the client holds now
Stale401(c) ==
    /\ calls[c].pc = "fetch"
    /\ calls'[c].n401 = calls[c].n401 + 1
    /\ Truthy(token)
    /\ calls[c].issuedWith # token
    /\ \E d \in DOMAIN calls \ {c} :
         /\ calls[d].kind = "login"
         /\ calls[d].pc = "resolved"
         /\ Get(calls[d].result, "token") = token

\* C27 (as claimed): a 401 answer to a request that was issued under the
\* previous credential, arriving after a login() has installed a new token,
\* leaves the new token in memory and in localStorage and publishes no
\* authChange{authenticated: false}.
C27_Stale401KeepsNewSession ==
    [][\A c \in DOMAIN calls :
         Stale401(c)
         => /\ token' = token
            /\ localStorage'["token"] = localStorage["token"]
            /\ \A i \in DOMAIN published' : ~IsAuthFalse(published'[i])
      ]_vars

\* C28 (as claimed): socketConnected is true only if the client holds a
\* socket and that socket is connected, whatever the order of
\* connectSocket(), disconnectSocket(), reconnect-timer firings and opens
\* and closes of every socket the client has created.
C28_FlagImpliesCurrentSocketConnected ==
    socketConnected => (socket # 0 /\ socks[socket] = "connected")

\* C29 (as claimed): in every state the token in memory and the token in
\* localStorage agree: both are absent, or both are the same value, whatever
\* logins, logouts and requests answered 401 came before.
C29_MemoryTokenEqualsStored ==
    IF Truthy(token)
    THEN localStorage["token"] = token
    ELSE localStorage["token"] = Null

\* the turn in which the login() of call c fails: its request is rejected
LoginFails(c) ==
    /\ calls[c].kind = "login"
    /\ calls[c].pc # "rejected"
    /\ calls'[c].pc = "rejected"

\* C30 (as claimed): a login() that fails, on a non-2xx answer or on a
\* transport that failed on every attempt, has published no event and has
\* refreshed no token on any of its attempts, and the turn in which it fails
\* leaves the credential in memory and in localStorage and the state of the
\* socket as they were.
C30_FailedLoginChangesNothing ==
    [][\A c \in DOMAIN calls :
         LoginFails(c)
         => /\ calls'[c].pub = <<>>
            /\ calls'[c].refreshes = 0
            /\ published' = <<>>
            /\ UNCHANGED <<token, refreshToken, localStorage>>
            /\ UNCHANGED <<socket, socks, socketConnected, reconnectAttempts,
                           reconnectTimers>>
      ]_vars

====
